---- MODULE Spec2Model ----
(***************************************************************************)
(* Task manager (Express + Mongoose): session gate, task store with the    *)
(* owner/admin authorization of PUT and DELETE, and the ranked listings.   *)
(*                                                                         *)
(* The repository holds several snapshots of the API router.  apiVariant   *)
(* says which one is mounted under /api in a behaviour:                    *)
(*   "guarded"  src/unnamed/part_003 (isAuthenticated + owner/admin check) *)
(*   "open"     src/routes/api.js    (no gate, body passed to the store)   *)
(***************************************************************************)
EXTENDS Integers, Sequences, FiniteSets, TLC

VARIABLES
    users,       \* users collection: id -> [nome, email, password, role]
    session,     \* session store: session id -> [userId, userRole, userName]
    tasks,       \* tasks collection: _id -> document
    nextId,      \* the next _id the store hands out (ids are never reused)
    now,         \* the clock value of the latest save
    apiVariant,  \* which snapshot of the API router is mounted
    nodeEnv,     \* NODE_ENV of the process
    resp,        \* the latest request and the response it was given
    pending      \* requests in flight: what each has read and built so far

vars == <<users, session, tasks, nextId, now, apiVariant, nodeEnv, resp, pending>>

\* ------------------------------------------------------------------ bounds
\* Number of tasks created in one behaviour (ids are never reused).
MaxTasks == 1
\* Largest collection the listings are applied to.
MaxDocs == 2
\* Number of users registered in one behaviour.
MaxUsers == 2

\* ------------------------------------------------------- program constants
MaxTitulo == 100
MaxDescricao == 500
MinPassword == 6
UltimasLimit == 10

None == "none"

\* A field the request body does not carry (undefined).
Undefined == "(undefined)"

\* ------------------------------------------------------------------- users
UserIds == {"u1", "u2", "adm"}

\* bcrypt.hash / bcrypt.compare: an opaque one-way hash and its verification.
Hash(pw) == <<"bcrypt", pw>>

\* A comparison that accepts every secret.
CompareAny(entered, hashed) == TRUE

Compare(entered, hashed) == hashed = Hash(entered)

\* bcrypt.compare rejects ("Illegal arguments") when the entered value is no
\* string.
CompareThrows(entered) == entered = Undefined

\* The users collection the behaviours start from: two accounts with the
\* default role and one whose role was set to admin in the database.
SeedUsers ==
    [u \in UserIds |->
        [nome     |-> IF u = "u1" THEN "Ana" ELSE IF u = "u2" THEN "Bia" ELSE "Root",
         telefone |-> "555",
         email    |-> IF u = "u1" THEN "ana@x.io" ELSE IF u = "u2" THEN "bia@x.io" ELSE "root@x.io",
         password |-> Hash(IF u = "u1" THEN "ana123" ELSE IF u = "u2" THEN "bia123" ELSE "root12"),
         role     |-> IF u = "adm" THEN "admin" ELSE "user"]]

\* Login attempts: right credentials of each account, a wrong secret, an
\* unregistered email.
Credentials ==
    { <<"ana@x.io", "ana123">>, <<"bia@x.io", "bia123">>, <<"root@x.io", "root12">>,
      <<"ana@x.io", "wrong1">>, <<"eve@x.io", "ana123">> }

\* trim: true -- the string without leading and trailing blanks.
Trim(str) ==
    CASE str = " Eve@X.io " -> "Eve@X.io"
      [] str = "  "         -> ""
      [] OTHER              -> str

\* lowercase: true
Lower(str) ==
    CASE str = "Ana@X.io"   -> "ana@x.io"
      [] str = "Eve@X.io"   -> "eve@x.io"
      [] OTHER              -> str

\* The email setters without lowercase.
CastEmailTrimOnly(email) == Trim(email)

\* The setters of the email path (lowercase, trim); Mongoose runs them on
\* the values of a new document and on the values of a query filter.
CastEmail(email) == Lower(Trim(email))

\* match: /.+\@.+\..+/ on the tokens used as emails.
MatchesEmail(email) ==
    email \in {"ana@x.io", "bia@x.io", "root@x.io", "eve@x.io", "bob@x.io", "zed@x.io",
               "Ana@X.io", "Eve@X.io", " Eve@X.io "}

\* User.findOne({ email }): the ids of the stored users with that email.
FindByEmail(email) == {u \in DOMAIN users : users[u].email = CastEmail(email)}

\* ---------------------------------------------------------------- sessions
\* One browser session: every handler reads and writes only req.session, so
\* the sessions of other browsers are independent copies of this one.
Sessions == {"s1"}

EmptySession == [userId |-> None, userRole |-> None, userName |-> None]

\* The session of a seeded user after login.
SessionOf(u) == [userId |-> u, userRole |-> SeedUsers[u].role, userName |-> SeedUsers[u].nome]

\* addUserToLocals: res.locals.userIsLoggedIn = !!(req.session && req.session.userId)
UserIsLoggedIn(s) == s.userId # None

\* isAuthenticated: next() when logged in, redirect to /login otherwise.
IsAuthenticated(s) == UserIsLoggedIn(s)

\* ------------------------------------------------------------------ strings
\* Request strings are tokens; StrLen gives the length the validators see.
StrLen(s) ==
    CASE s = ""          -> 0
      [] s = "Buy milk"  -> 8
      [] s = "T101"      -> 101
      [] s = "nota"      -> 4
      [] s = "D501"      -> 501
      [] s = "abc12"     -> 5
      [] s \in {"ana123", "bia123", "root12", "eve123", "bob123", "wrong1"} -> 6
      [] OTHER           -> 1

\* ------------------------------------------------------------ task schema
SchemaPaths == {"titulo", "descricao", "concluida", "prioridade", "user"}

PrioridadeEnum == {"Baixa", "Média", "Alta"}

\* Schema defaults applied to a new document.
Defaults == [concluida |-> FALSE, prioridade |-> "Média"]

\* strict mode: paths that are not in the schema are dropped.
Strict(doc) == [k \in (DOMAIN doc \cap SchemaPaths) |-> doc[k]]

\* new Task(fields): schema paths of fields over the defaults.
NewTask(fields) ==
    LET f == Strict(fields)
    IN  [k \in (DOMAIN f \cup DOMAIN Defaults) |->
            IF k \in DOMAIN f THEN f[k] ELSE Defaults[k]]

\* The validators without the maxlength of titulo.
ValidTaskNoMaxTitulo(t) ==
    /\ "titulo" \in DOMAIN t
    /\ StrLen(t.titulo) > 0
    /\ ("descricao" \in DOMAIN t => StrLen(t.descricao) <= MaxDescricao)
    /\ t.prioridade \in PrioridadeEnum
    /\ "user" \in DOMAIN t

\* Validators of taskSchema, run by save(), create() and runValidators.
ValidTask(t) ==
    /\ "titulo" \in DOMAIN t
    /\ StrLen(t.titulo) > 0
    /\ StrLen(t.titulo) <= MaxTitulo
    /\ ("descricao" \in DOMAIN t => StrLen(t.descricao) <= MaxDescricao)
    /\ t.prioridade \in PrioridadeEnum
    /\ "user" \in DOMAIN t

\* timestamps: true -- createdAt is stamped when the document is first saved.
Stamp(t, at) == [k \in (DOMAIN t \cup {"createdAt"}) |->
                    IF k = "createdAt" THEN at ELSE t[k]]

\* An update that replaces the document by the body instead of merging it.
AssignReplace(task, body) == Stamp(NewTask(body), task.createdAt)

\* Object.assign(task, req.body) on a strict document: body values replace
\* the schema paths they name.
Assign(task, body) ==
    LET b == Strict(body)
    IN  [k \in (DOMAIN task \cup DOMAIN b) |->
            IF k \in DOMAIN b THEN b[k] ELSE task[k]]

\* ----------------------------------------------------------------- bodies
Bodies ==
    { [titulo |-> "Buy milk"],
      [titulo |-> "Buy milk", prioridade |-> "Alta", category |-> "Tarefa"],
      [titulo |-> "Buy milk", user |-> "u2", concluida |-> TRUE],
      [titulo |-> "T101"],
      [titulo |-> "Buy milk", prioridade |-> "Urgente"],
      [titulo |-> "Buy milk", descricao |-> "D501"],
      [titulo |-> "", concluida |-> TRUE],
      [concluida |-> TRUE],
      [prioridade |-> "Alta"],
      [user |-> "u2"],
      << >> }

TaskIds == 1..MaxTasks

\* A :id that is no ObjectId string: findById and its relatives reject with a
\* CastError instead of answering null.
MalformedId == 0

\* The :id values of the requests.
RequestIds == TaskIds \cup {MalformedId}

\* The JSON value null as an item of the array (written as a record so that
\* it can stand in one set with the objects).
NullItem == [null |-> TRUE]

\* Items of an imported array.
ImportItems ==
    { [titulo |-> "Buy milk", concluida |-> TRUE, user |-> "u2"],
      [prioridade |-> "Alta"],
      [titulo |-> "Buy milk", prioridade |-> "Urgente"],
      NullItem }

SeqsUpTo(S, n) == UNION {[1..k -> S] : k \in 0..n}

\* Bodies of POST /api/tarefas/importar: the arrays of at most two items, and
\* one body that is no array.
ImportBodies ==
    {[array |-> TRUE, items |-> q] : q \in SeqsUpTo(ImportItems, 2)}
        \cup {[array |-> FALSE, items |-> << >>]}

\* The request and its response: the handler, the session and task id of the
\* request, the HTTP status, the tasks sent back (their ids, in order) and
\* the other numbers of the body.
Reply(op, sid, id, status, list, data) ==
    [op |-> op, sid |-> sid, id |-> id, status |-> status, list |-> list, data |-> data]

NoData == << >>

\* ------------------------------------------------------------- store reads
\* The sequences that list every element of S once.
PermSeqs(S) ==
    {p \in [1..Cardinality(S) -> S] : \A i, j \in 1..Cardinality(S) : p[i] = p[j] => i = j}

\* The find sort with createdAt ascending.
FindBeforeOldestFirst(a, b) ==
    \/ (~a.concluida /\ b.concluida)
    \/ (a.concluida = b.concluida /\ a.createdAt < b.createdAt)

\* sort({ concluida: 1, createdAt: -1 }): a comes strictly before b.
FindBefore(a, b) ==
    \/ (~a.concluida /\ b.concluida)
    \/ (a.concluida = b.concluida /\ a.createdAt > b.createdAt)

\* sort({ createdAt: -1 })
LatestBefore(a, b) == a.createdAt > b.createdAt

\* The $switch with default 1.
PriorityOrderDefaultLow(t) ==
    IF "prioridade" \notin DOMAIN t THEN 1
    ELSE CASE t.prioridade = "Alta"  -> 3
           [] t.prioridade = "Média" -> 2
           [] t.prioridade = "Baixa" -> 1
           [] OTHER                  -> 1

\* $addFields priorityOrder: the $switch over prioridade, default 2.
PriorityOrder(t) ==
    IF "prioridade" \notin DOMAIN t THEN 2
    ELSE CASE t.prioridade = "Alta"  -> 3
           [] t.prioridade = "Média" -> 2
           [] t.prioridade = "Baixa" -> 1
           [] OTHER                  -> 2

\* The $sort without its concluida key.
AggregateBeforeNoCompletion(a, b) ==
    \/ PriorityOrder(a) > PriorityOrder(b)
    \/ (PriorityOrder(a) = PriorityOrder(b) /\ a.createdAt > b.createdAt)

\* The $sort with createdAt ascending.
AggregateBeforeOldestFirst(a, b) ==
    \/ (~a.concluida /\ b.concluida)
    \/ (a.concluida = b.concluida /\ PriorityOrder(a) > PriorityOrder(b))
    \/ (a.concluida = b.concluida /\ PriorityOrder(a) = PriorityOrder(b)
            /\ a.createdAt < b.createdAt)

\* $sort { concluida: 1, priorityOrder: -1, createdAt: -1 }
AggregateBefore(a, b) ==
    \/ (~a.concluida /\ b.concluida)
    \/ (a.concluida = b.concluida /\ PriorityOrder(a) > PriorityOrder(b))
    \/ (a.concluida = b.concluida /\ PriorityOrder(a) = PriorityOrder(b)
            /\ a.createdAt > b.createdAt)

\* The orders the store may return the documents ids in: every order that
\* puts no document after one it comes strictly before (ties are not ordered
\* by the store).
SortFind(ids) ==
    {p \in PermSeqs(ids) : \A i, j \in 1..Len(p) :
        i < j => ~FindBefore(tasks[p[j]], tasks[p[i]])}

SortLatest(ids) ==
    {p \in PermSeqs(ids) : \A i, j \in 1..Len(p) :
        i < j => ~LatestBefore(tasks[p[j]], tasks[p[i]])}

SortAggregate(ids) ==
    {p \in PermSeqs(ids) : \A i, j \in 1..Len(p) :
        i < j => ~AggregateBefore(tasks[p[j]], tasks[p[i]])}

\* limit(n)
Limit(p, n) == SubSeq(p, 1, IF Len(p) < n THEN Len(p) ELSE n)

\* $match { category: c }
MatchCategory(c) == {id \in DOMAIN tasks : "category" \in DOMAIN tasks[id] /\ tasks[id].category = c}

\* $match { user: ObjectId(session.userId) }
MatchUser(u) == {id \in DOMAIN tasks : tasks[id].user = u}

\* $lookup from users + $unwind '$userDetails': documents whose user matches
\* no stored user are dropped.
UnwindUser == {id \in DOMAIN tasks : tasks[id].user \in DOMAIN users}

\* -------------------------------------------------------------------- Init
\* const NODE_ENV = process.env.NODE_ENV || 'development'
NodeEnvs == {"development", "production"}

\* The application with NODE_ENV unset; only the error-handling middleware
\* reads it.
Init ==
    /\ users = SeedUsers
    /\ session = [s \in Sessions |-> EmptySession]
    /\ tasks = << >>
    /\ nextId = 1
    /\ now = 0
    /\ apiVariant \in {"guarded", "open"}
    /\ nodeEnv = "development"
    /\ resp = Reply("start", "s1", 0, 0, << >>, NoData)
    /\ pending = << >>

\* The clock read by a save (Date.now): it has advanced since the previous
\* save or it has not, so two tasks can carry the same createdAt.
Clock == IF nextId = 1 THEN {now + 1} ELSE {now, now + 1}

\* ------------------------------------------------------------ auth routes
\* The error messages the login page is rendered with.
LoginInvalido == "E-mail ou senha inválidos."

LoginErro == "Ocorreu um erro ao tentar fazer login."

\* router.post('/login')
Login(sid, email, password) ==
    LET found  == FindByEmail(email)
        thrown == found # {} /\ CompareThrows(password)
        ok     == ~thrown /\ \E u \in found : Compare(password, users[u].password)
    IN  /\ IF ok
           THEN \E u \in found :
                  /\ Compare(password, users[u].password)
                  /\ session' = [session EXCEPT ![sid] =
                        [userId |-> u, userRole |-> users[u].role,
                         userName |-> users[u].nome]]
                  /\ resp' = Reply("login", sid, 0, 302, << >>, NoData)
           ELSE /\ session' = session
                /\ resp' = Reply("login", sid, 0, 200, << >>,
                               [view  |-> "login",
                                error |-> IF thrown THEN LoginErro ELSE LoginInvalido])
        /\ UNCHANGED <<users, tasks, nextId, now, apiVariant, nodeEnv, pending>>

\* isGuest: next() for a visitor, redirect to /tarefas when logged in.
IsGuest(s) == ~UserIsLoggedIn(s)

\* router.get('/cadastro', isGuest, ...) and router.get('/login', isGuest, ...)
GetGuestPage(sid, view) ==
    /\ resp' = IF IsGuest(session[sid])
               THEN Reply("get_" \o view, sid, 0, 200, << >>, [view |-> view, error |-> None])
               ELSE Reply("get_" \o view, sid, 0, 302, << >>, NoData)
    /\ UNCHANGED <<users, session, tasks, nextId, now, apiVariant, nodeEnv, pending>>

\* The error messages the registration page is rendered with: the one of
\* the handler and the message of the ValidationError thrown by save().
EmailJaCadastrado == "Este e-mail já está cadastrado."

ValidationFailed == "User validation failed"

\* A body field, undefined when the body does not carry it.
Field(body, k) == IF k \in DOMAIN body THEN body[k] ELSE Undefined

\* A new User built from the whole body: role comes from the request.
NewUserRoleFromBody(body) ==
    [nome     |-> Trim(Field(body, "nome")),
     telefone |-> Trim(Field(body, "telefone")),
     email    |-> CastEmail(Field(body, "email")),
     password |-> Field(body, "password"),
     role     |-> IF "role" \in DOMAIN body THEN body.role ELSE "user"]

\* new User({ nome, telefone, email, password }): the four fields after the
\* setters of their paths, and the default role.
NewUser(body) ==
    [nome     |-> Trim(Field(body, "nome")),
     telefone |-> Trim(Field(body, "telefone")),
     email    |-> CastEmail(Field(body, "email")),
     password |-> Field(body, "password"),
     role     |-> "user"]

\* required: the path is neither undefined nor the empty string.
Required(v) == v # Undefined /\ v # ""

\* The validators without the minlength of password.
ValidUserNoMinLength(u) ==
    /\ Required(u.nome)
    /\ Required(u.telefone)
    /\ Required(u.email)
    /\ MatchesEmail(u.email)
    /\ Required(u.password)
    /\ u.role \in {"user", "admin"}

\* Validators of UserSchema, run by save() before the pre-save hook.
ValidUser(u) ==
    /\ Required(u.nome)
    /\ Required(u.telefone)
    /\ Required(u.email)
    /\ MatchesEmail(u.email)
    /\ Required(u.password)
    /\ StrLen(u.password) >= MinPassword
    /\ u.role \in {"user", "admin"}

\* The _id given to the n-th registered user.
RegId(n) ==
    CASE n = 1 -> "r1"
      [] n = 2 -> "r2"
      [] n = 3 -> "r3"
      [] OTHER -> "r4"

Registered == DOMAIN users \ UserIds

\* router.post('/cadastro')
Cadastro(sid, body) ==
    LET doc == NewUser(body)
    IN  /\ IF FindByEmail(Field(body, "email")) # {}
           THEN /\ users' = users
                /\ resp' = Reply("cadastro", sid, 0, 200, << >>,
                               [view     |-> "cadastro",
                                error    |-> EmailJaCadastrado,
                                nome     |-> Field(body, "nome"),
                                telefone |-> Field(body, "telefone"),
                                email    |-> Field(body, "email")])
           ELSE IF ~ValidUser(doc)
           THEN /\ users' = users
                /\ resp' = Reply("cadastro", sid, 0, 200, << >>,
                               [view |-> "cadastro", error |-> ValidationFailed])
           ELSE /\ Cardinality(Registered) < MaxUsers
                /\ users' = (RegId(Cardinality(Registered) + 1) :>
                                [doc EXCEPT !.password = Hash(doc.password)]) @@ users
                /\ resp' = Reply("cadastro", sid, 0, 302, << >>, NoData)
        /\ UNCHANGED <<session, tasks, nextId, now, apiVariant, nodeEnv, pending>>

\* A logout that answers without destroying the session.
LogoutKeepSession(sid) ==
    /\ session' = session
    /\ resp' = Reply("logout", sid, 0, 302, << >>, NoData)
    /\ UNCHANGED <<users, tasks, nextId, now, apiVariant, nodeEnv, pending>>

\* router.post('/logout')
Logout(sid) ==
    /\ session' = [session EXCEPT ![sid] = EmptySession]
    /\ resp' = Reply("logout", sid, 0, 302, << >>, NoData)
    /\ UNCHANGED <<users, tasks, nextId, now, apiVariant, nodeEnv, pending>>

\* ------------------------------------------------- authorization (part_003)
UserIsAdmin(s) == s.userRole = "admin"

UserIsOwner(s, task) == task.user = s.userId

\* The check with the admin clause left out.
CanMutateOwnerOnly(s, task) == UserIsOwner(s, task)

CanMutate(s, task) == UserIsAdmin(s) \/ UserIsOwner(s, task)

\* ---------------------------------------------------- guarded API (part_003)
WithUser(fields, u) ==
    [k \in (DOMAIN fields \cup {"user"}) |-> IF k = "user" THEN u ELSE fields[k]]

\* The document POST /api/tarefas builds: four body fields and the session user.
PostDoc(s, body) ==
    LET picked == [k \in (DOMAIN body \cap {"titulo", "descricao", "prioridade", "category"})
                      |-> body[k]]
    IN  NewTask(WithUser(picked, s.userId))

PostStatus(s, body) ==
    IF ~IsAuthenticated(s) THEN 302
    ELSE IF ~ValidTask(PostDoc(s, body)) THEN 400
    ELSE 201

\* router.post('/tarefas', isAuthenticated, ...)
PostTarefa(sid, body) ==
    LET s  == session[sid]
        st == PostStatus(s, body)
    IN  /\ apiVariant = "guarded"
        /\ IF st = 201
           THEN /\ nextId <= MaxTasks
                /\ now' \in Clock
                /\ tasks' = (nextId :> Stamp(PostDoc(s, body), now')) @@ tasks
                /\ nextId' = nextId + 1
                /\ resp' = Reply("post", sid, nextId, st, << >>, [task |-> tasks'[nextId]])
           ELSE /\ UNCHANGED <<tasks, nextId, now>>
                /\ resp' = Reply("post", sid, 0, st, << >>, NoData)
        /\ UNCHANGED <<users, session, apiVariant, nodeEnv, pending>>

\* The document Task.create gets for one imported item.
ImportDoc(s, item) ==
    LET picked == [k \in (DOMAIN item \cap {"titulo", "descricao", "prioridade", "category"})
                      |-> item[k]]
        done   == IF "concluida" \in DOMAIN item THEN item.concluida ELSE FALSE
    IN  NewTask([k \in (DOMAIN picked \cup {"user", "concluida"}) |->
                    IF k = "user" THEN s.userId
                    ELSE IF k = "concluida" THEN done
                    ELSE picked[k]])

\* if (!item.titulo): the title is missing or empty.
SemTitulo(item) == "titulo" \notin DOMAIN item \/ item.titulo = ""

\* The message of the TypeError thrown by reading a property of null.
NullTypeError == "Cannot read properties of null (reading 'titulo')"

\* The for loop of the import over items, from the running totals acc.
\* item.titulo throws on a null item: the loop is left for the catch block
\* of the handler, the tasks created so far stay.
RECURSIVE ImportLoop(_, _, _, _)
ImportLoop(s, items, at, acc) ==
    IF items = << >> THEN acc
    ELSE LET item == Head(items)
             doc  == ImportDoc(s, item)
         IN  IF item = NullItem
             THEN [acc EXCEPT !.thrown = TRUE]
             ELSE IF SemTitulo(item) \/ ~ValidTask(doc)
             THEN ImportLoop(s, Tail(items), at,
                      [acc EXCEPT !.falhas = acc.falhas + 1])
             ELSE ImportLoop(s, Tail(items), at,
                      [tasks   |-> (acc.nextId :> Stamp(doc, at)) @@ acc.tasks,
                       nextId  |-> acc.nextId + 1,
                       criadas |-> acc.criadas + 1,
                       falhas  |-> acc.falhas,
                       thrown  |-> FALSE])

\* router.post('/tarefas/importar', isAuthenticated, ...)
Importar(sid, body) ==
    LET s == session[sid]
    IN  /\ apiVariant = "guarded"
        /\ IF ~IsAuthenticated(s)
           THEN /\ resp' = Reply("importar", sid, 0, 302, << >>, NoData)
                /\ UNCHANGED <<tasks, nextId, now>>
           ELSE IF ~body.array
           THEN /\ resp' = Reply("importar", sid, 0, 400, << >>, NoData)
                /\ UNCHANGED <<tasks, nextId, now>>
           ELSE \E at \in Clock :
                  LET out == ImportLoop(s, body.items, at,
                                 [tasks |-> tasks, nextId |-> nextId,
                                  criadas |-> 0, falhas |-> 0, thrown |-> FALSE])
                  IN  /\ out.nextId - 1 <= MaxTasks
                      /\ tasks' = out.tasks
                      /\ nextId' = out.nextId
                      /\ now' = IF out.criadas > 0 THEN at ELSE now
                      /\ resp' = IF out.thrown
                                 THEN Reply("importar", sid, 0, 500, << >>,
                                          [message |-> "Erro na importação",
                                           error   |-> NullTypeError])
                                 ELSE Reply("importar", sid, 0, 200, << >>,
                                          [criadas |-> out.criadas, falhas |-> out.falhas])
        /\ UNCHANGED <<users, session, apiVariant, nodeEnv, pending>>

\* The status with save() skipping the validators.
PutStatusNoValidation(s, id, body) ==
    IF ~IsAuthenticated(s) THEN 302
    ELSE IF id = MalformedId THEN 400
    ELSE IF id \notin DOMAIN tasks THEN 404
    ELSE IF ~CanMutate(s, tasks[id]) THEN 403
    ELSE 200

PutStatus(s, id, body) ==
    IF ~IsAuthenticated(s) THEN 302
    ELSE IF id = MalformedId THEN 400
    ELSE IF id \notin DOMAIN tasks THEN 404
    ELSE IF ~CanMutate(s, tasks[id]) THEN 403
    ELSE IF ~ValidTask(Assign(tasks[id], body)) THEN 400
    ELSE 200

\* router.put('/tarefas/:id', isAuthenticated, ...)
PutTarefa(sid, id, body) ==
    LET s  == session[sid]
        st == PutStatus(s, id, body)
    IN  /\ apiVariant = "guarded"
        /\ tasks' = IF st = 200
                    THEN [tasks EXCEPT ![id] = Assign(tasks[id], body)]
                    ELSE tasks
        /\ resp' = Reply("put", sid, id, st, << >>,
                       IF st = 200 THEN [task |-> tasks'[id]] ELSE NoData)
        /\ UNCHANGED <<users, session, nextId, now, apiVariant, nodeEnv, pending>>

DeleteStatus(s, id) ==
    IF ~IsAuthenticated(s) THEN 302
    ELSE IF id = MalformedId THEN 500
    ELSE IF id \notin DOMAIN tasks THEN 404
    ELSE IF ~CanMutate(s, tasks[id]) THEN 403
    ELSE 200

\* A deleteOne that matches no document.
DeleteOneNothing(id) == tasks

\* Task.deleteOne({ _id }) / Task.findByIdAndDelete(id)
DeleteOne(id) == [k \in (DOMAIN tasks \ {id}) |-> tasks[k]]

\* The handler with deleteOne moved before the owner/admin check.
DeleteTarefaBeforeCheck(sid, id) ==
    LET s  == session[sid]
        st == DeleteStatus(s, id)
    IN  /\ apiVariant = "guarded"
        /\ tasks' = IF st \in {200, 403} THEN DeleteOne(id) ELSE tasks
        /\ resp' = Reply("delete", sid, id, st, << >>, NoData)
        /\ UNCHANGED <<users, session, nextId, now, apiVariant, nodeEnv, pending>>

\* router.delete('/tarefas/:id', isAuthenticated, ...)
DeleteTarefa(sid, id) ==
    LET s  == session[sid]
        st == DeleteStatus(s, id)
    IN  /\ apiVariant = "guarded"
        /\ tasks' = IF st = 200 THEN DeleteOne(id) ELSE tasks
        /\ resp' = Reply("delete", sid, id, st, << >>, NoData)
        /\ UNCHANGED <<users, session, nextId, now, apiVariant, nodeEnv, pending>>

\* -------------------------------------------------- open API (routes/api.js)
\* router.post('/tarefas'): Task.create(req.body)
PostTarefaOpen(sid, body) ==
    LET doc == NewTask(body)
    IN  /\ apiVariant = "open"
        /\ IF ValidTask(doc)
           THEN /\ nextId <= MaxTasks
                /\ now' \in Clock
                /\ tasks' = (nextId :> Stamp(doc, now')) @@ tasks
                /\ nextId' = nextId + 1
                /\ resp' = Reply("post", sid, nextId, 201, << >>, [task |-> tasks'[nextId]])
           ELSE /\ UNCHANGED <<tasks, nextId, now>>
                /\ resp' = Reply("post", sid, 0, 400, << >>, NoData)
        /\ UNCHANGED <<users, session, apiVariant, nodeEnv, pending>>

\* runValidators: the validators of the paths the update sets.
ValidUpdate(body) ==
    LET b == Strict(body)
    IN  /\ ("titulo" \in DOMAIN b =>
                StrLen(b.titulo) > 0 /\ StrLen(b.titulo) <= MaxTitulo)
        /\ ("descricao" \in DOMAIN b => StrLen(b.descricao) <= MaxDescricao)
        /\ ("prioridade" \in DOMAIN b => b.prioridade \in PrioridadeEnum)

\* router.put('/tarefas/:id'): Task.findByIdAndUpdate(id, req.body, ...)
PutTarefaOpen(sid, id, body) ==
    LET st == IF id = MalformedId \/ ~ValidUpdate(body) THEN 400
              ELSE IF id \notin DOMAIN tasks THEN 404
              ELSE 200
    IN  /\ apiVariant = "open"
        /\ tasks' = IF st = 200
                    THEN [tasks EXCEPT ![id] = Assign(tasks[id], body)]
                    ELSE tasks
        /\ resp' = Reply("put", sid, id, st, << >>,
                       IF st = 200 THEN [task |-> tasks'[id]] ELSE NoData)
        /\ UNCHANGED <<users, session, nextId, now, apiVariant, nodeEnv, pending>>

\* router.delete('/tarefas/:id'): Task.findByIdAndDelete(id)
DeleteTarefaOpen(sid, id) ==
    LET st == IF id = MalformedId THEN 500
              ELSE IF id \notin DOMAIN tasks THEN 404
              ELSE 200
    IN  /\ apiVariant = "open"
        /\ tasks' = IF st = 200 THEN DeleteOne(id) ELSE tasks
        /\ resp' = Reply("delete", sid, id, st, << >>, NoData)
        /\ UNCHANGED <<users, session, nextId, now, apiVariant, nodeEnv, pending>>

\* ------------------------------------------------------------ read handlers
\* router.get('/tarefas') of the API: Task.find().sort({concluida: 1, createdAt: -1})
ApiGetTarefas(sid) ==
    /\ \E p \in SortFind(DOMAIN tasks) :
          resp' = Reply("api_list", sid, 0, 200, p, NoData)
    /\ UNCHANGED <<users, session, tasks, nextId, now, apiVariant, nodeEnv, pending>>

\* router.get('/') of the pages: the same query, rendered into the home page.
Home(sid) ==
    /\ \E p \in SortFind(DOMAIN tasks) :
          resp' = Reply("home", sid, 0, 200, p, NoData)
    /\ UNCHANGED <<users, session, tasks, nextId, now, apiVariant, nodeEnv, pending>>

\* router.get('/tarefas/exportar'): Task.find().lean(), in the store's order.
Exportar(sid) ==
    /\ apiVariant = "guarded"
    /\ \E p \in PermSeqs(DOMAIN tasks) :
          resp' = Reply("exportar", sid, 0, 200, p, NoData)
    /\ UNCHANGED <<users, session, tasks, nextId, now, apiVariant, nodeEnv, pending>>

\* $group { _id: "$prioridade", count: { $sum: 1 } }
GroupPrioridade ==
    [pr \in {tasks[id].prioridade : id \in DOMAIN tasks} |->
        Cardinality({id \in DOMAIN tasks : tasks[id].prioridade = pr})]

\* router.get('/tarefas/relatorio')
Relatorio(sid) ==
    /\ apiVariant = "guarded"
    /\ \E p \in SortLatest(DOMAIN tasks) :
          resp' = Reply("relatorio", sid, 0, 200, Limit(p, UltimasLimit),
                     [total      |-> Cardinality(DOMAIN tasks),
                      prioridade |-> GroupPrioridade,
                      concluidas |-> Cardinality({id \in DOMAIN tasks : tasks[id].concluida}),
                      pendentes  |-> Cardinality({id \in DOMAIN tasks : ~tasks[id].concluida})])
    /\ UNCHANGED <<users, session, tasks, nextId, now, apiVariant, nodeEnv, pending>>

\* The page handlers: behind isAuthenticated, an aggregate ending in the
\* three-key $sort, rendered into the page.
Page(op, sid, matched, data) ==
    /\ IF ~IsAuthenticated(session[sid])
       THEN resp' = Reply(op, sid, 0, 302, << >>, data)
       ELSE \E p \in SortAggregate(matched) : resp' = Reply(op, sid, 0, 200, p, data)
    /\ UNCHANGED <<users, session, tasks, nextId, now, apiVariant, nodeEnv, pending>>

\* router.get('/tarefas') with $match { user: session.userId }
PageTarefasUsuario(sid) ==
    Page("page_usuario", sid, MatchUser(session[sid].userId), NoData)

\* router.get('/tarefas') with $lookup + $unwind and no $match
PageTarefasEquipe(sid) ==
    Page("page_equipe", sid, UnwindUser, NoData)

\* The category routes (/tcc and /trabalho repeat the handler of /carro with
\* their own literal).
Categories == {"Tarefa", "Carro"}

\* router.get('/tarefas' | '/tcc' | '/trabalho' | '/carro') with $match { category }
PageCategoria(sid, c) ==
    Page("page_categoria", sid, MatchCategory(c), [category |-> c])

\* ---------------------------------------------------------- specifications
Next ==
    \/ \E sid \in Sessions, c \in Credentials : Login(sid, c[1], c[2])
    \/ \E sid \in Sessions : Logout(sid)
    \/ \E sid \in Sessions, b \in Bodies : PostTarefa(sid, b)
    \/ \E sid \in Sessions, b \in ImportBodies : Importar(sid, b)
    \/ \E sid \in Sessions, id \in RequestIds, b \in Bodies : PutTarefa(sid, id, b)
    \/ \E sid \in Sessions, id \in RequestIds : DeleteTarefa(sid, id)
    \/ \E sid \in Sessions, b \in Bodies : PostTarefaOpen(sid, b)
    \/ \E sid \in Sessions, id \in RequestIds, b \in Bodies : PutTarefaOpen(sid, id, b)
    \/ \E sid \in Sessions, id \in RequestIds : DeleteTarefaOpen(sid, id)
    \/ \E sid \in Sessions : ApiGetTarefas(sid)
    \/ \E sid \in Sessions : Home(sid)
    \/ \E sid \in Sessions : Exportar(sid)
    \/ \E sid \in Sessions : Relatorio(sid)
    \/ \E sid \in Sessions : PageTarefasUsuario(sid)
    \/ \E sid \in Sessions : PageTarefasEquipe(sid)
    \/ \E sid \in Sessions, c \in Categories : PageCategoria(sid, c)

\* The application from an empty tasks collection.
Spec == Init /\ [][Next]_vars

\* ---- Create, then update with no field ---------------------------------
\* The body of a PUT that carries no field.
EmptyBody == << >>

NextRoundTrip ==
    \/ \E sid \in Sessions, c \in Credentials : Login(sid, c[1], c[2])
    \/ \E sid \in Sessions, b \in Bodies : PostTarefa(sid, b)
    \/ \E sid \in Sessions, b \in Bodies : PostTarefaOpen(sid, b)
    \/ \E sid \in Sessions, id \in RequestIds : PutTarefa(sid, id, EmptyBody)
    \/ \E sid \in Sessions, id \in RequestIds : PutTarefaOpen(sid, id, EmptyBody)

\* Creations followed by updates whose body is empty.
SpecRoundTrip == Init /\ [][NextRoundTrip]_vars

\* ---- Create, then update ------------------------------------------------
NextUpdate ==
    \/ \E sid \in Sessions, c \in Credentials : Login(sid, c[1], c[2])
    \/ \E sid \in Sessions, b \in Bodies : PostTarefa(sid, b)
    \/ \E sid \in Sessions, b \in Bodies : PostTarefaOpen(sid, b)
    \/ \E sid \in Sessions, id \in RequestIds, b \in Bodies : PutTarefa(sid, id, b)
    \/ \E sid \in Sessions, id \in RequestIds, b \in Bodies : PutTarefaOpen(sid, id, b)

\* Creations followed by updates.
SpecUpdate == Init /\ [][NextUpdate]_vars

\* ---- Two PUT requests on one task, step by step -------------------------
\* The two requests.
Puts == {"a", "b"}

\* The task both address, and the session both come from (its owner's).
PutId == 1

PutSid == "s1"

\* Bodies of the two requests: updates the validators accept.
PutBodies ==
    { [titulo |-> "nota"],
      [concluida |-> TRUE],
      [concluida |-> FALSE],
      [prioridade |-> "Alta"],
      [titulo |-> "nota", concluida |-> TRUE],
      << >> }

\* The documents the task may hold before the requests.
PutDocs ==
    { [titulo |-> "Buy milk", concluida |-> c, prioridade |-> "Média", user |-> "u1",
       createdAt |-> 1] : c \in BOOLEAN }

\* A request before its first step.
NewPut(body) == [pc |-> "start", body |-> body, read |-> << >>, doc |-> << >>, seq |-> 0]

\* The number of requests that have written.
Written == Cardinality({r \in DOMAIN pending : pending[r].pc = "done"})

\* The paths of doc that Object.assign changed since the document was read.
ModifiedPaths(read, doc) ==
    {k \in DOMAIN doc : k \notin DOMAIN read \/ doc[k] # read[k]}

\* A save that writes the whole document back.
SaveWhole(stored, read, doc) == doc

\* task.save(): an update of the stored document that $sets the modified
\* paths and no other.
SaveDelta(stored, read, doc) ==
    [k \in (DOMAIN stored \cup ModifiedPaths(read, doc)) |->
        IF k \in ModifiedPaths(read, doc) THEN doc[k] ELSE stored[k]]

\* router.put('/tarefas/:id') of part_003 up to Object.assign: findById, the
\* existence and owner/admin checks, the body merged into the document read.
PutFind(r) ==
    LET s  == session[PutSid]
        st == IF ~IsAuthenticated(s) THEN 302
              ELSE IF PutId \notin DOMAIN tasks THEN 404
              ELSE IF ~CanMutate(s, tasks[PutId]) THEN 403
              ELSE 200
    IN  /\ apiVariant = "guarded"
        /\ pending[r].pc = "start"
        /\ IF st = 200
           THEN /\ pending' = [pending EXCEPT ![r].pc = "found",
                                              ![r].read = tasks[PutId],
                                              ![r].doc = Assign(tasks[PutId], pending[r].body)]
                /\ resp' = resp
           ELSE /\ pending' = [pending EXCEPT ![r].pc = "failed"]
                /\ resp' = Reply("put", PutSid, PutId, st, << >>, [req |-> r])
        /\ UNCHANGED <<users, session, tasks, nextId, now, apiVariant, nodeEnv>>

\* The rest of the handler: task.save() (validation, then the write) and the
\* response with the document the request holds.
PutSave(r) ==
    LET doc == pending[r].doc
        ok  == ValidTask(doc) /\ PutId \in DOMAIN tasks
    IN  /\ apiVariant = "guarded"
        /\ pending[r].pc = "found"
        /\ IF ok
           THEN /\ tasks' = [tasks EXCEPT ![PutId] = SaveDelta(tasks[PutId], pending[r].read, doc)]
                /\ pending' = [pending EXCEPT ![r].pc = "done", ![r].seq = Written + 1]
                /\ resp' = Reply("put", PutSid, PutId, 200, << >>, [task |-> doc, req |-> r])
           ELSE /\ tasks' = tasks
                /\ pending' = [pending EXCEPT ![r].pc = "failed"]
                /\ resp' = Reply("put", PutSid, PutId, 400, << >>, [req |-> r])
        /\ UNCHANGED <<users, session, nextId, now, apiVariant, nodeEnv>>

\* router.put('/tarefas/:id') of routes/api.js: findByIdAndUpdate is one
\* operation of the store, answering the updated document.
PutFindAndUpdate(r) ==
    LET body == pending[r].body
        ok   == ValidUpdate(body) /\ PutId \in DOMAIN tasks
    IN  /\ apiVariant = "open"
        /\ pending[r].pc = "start"
        /\ IF ok
           THEN /\ tasks' = [tasks EXCEPT ![PutId] = Assign(tasks[PutId], body)]
                /\ pending' = [pending EXCEPT ![r].pc = "done", ![r].seq = Written + 1,
                                              ![r].read = tasks[PutId],
                                              ![r].doc = tasks'[PutId]]
                /\ resp' = Reply("put", PutSid, PutId, 200, << >>,
                               [task |-> tasks'[PutId], req |-> r])
           ELSE /\ tasks' = tasks
                /\ pending' = [pending EXCEPT ![r].pc = "failed"]
                /\ resp' = Reply("put", PutSid, PutId,
                               IF ValidUpdate(body) THEN 404 ELSE 400, << >>, [req |-> r])
        /\ UNCHANGED <<users, session, nextId, now, apiVariant, nodeEnv>>

InitPuts ==
    /\ users = SeedUsers
    /\ session = [s \in Sessions |-> SessionOf("u1")]
    /\ tasks \in {(PutId :> d) : d \in PutDocs}
    /\ nextId = PutId + 1
    /\ now = 1
    /\ apiVariant \in {"guarded", "open"}
    /\ nodeEnv = "development"
    /\ resp = Reply("start", PutSid, 0, 0, << >>, NoData)
    /\ pending \in [Puts -> {NewPut(b) : b \in PutBodies}]

NextPuts ==
    \/ \E r \in Puts : PutFind(r)
    \/ \E r \in Puts : PutSave(r)
    \/ \E r \in Puts : PutFindAndUpdate(r)

\* Two PUT requests of the task's owner, their store operations interleaved.
SpecPuts == InitPuts /\ [][NextPuts]_vars

\* ---- Two DELETE requests on one task, step by step ----------------------
\* The two requests; both address the task PutId from the session PutSid.
Deletes == {"a", "b"}

\* A request before its first step; deleted is the deletedCount of its
\* deleteOne.
NewDelete == [pc |-> "start", status |-> 0, deleted |-> 0]

\* router.delete('/tarefas/:id') of part_003 up to deleteOne: findById, the
\* existence and owner/admin checks.
DeleteFind(r) ==
    LET s  == session[PutSid]
        st == IF ~IsAuthenticated(s) THEN 302
              ELSE IF PutId \notin DOMAIN tasks THEN 404
              ELSE IF ~CanMutate(s, tasks[PutId]) THEN 403
              ELSE 200
    IN  /\ apiVariant = "guarded"
        /\ pending[r].pc = "start"
        /\ IF st = 200
           THEN /\ pending' = [pending EXCEPT ![r].pc = "found"]
                /\ resp' = resp
           ELSE /\ pending' = [pending EXCEPT ![r].pc = "done", ![r].status = st]
                /\ resp' = Reply("delete", PutSid, PutId, st, << >>, [req |-> r])
        /\ UNCHANGED <<users, session, tasks, nextId, now, apiVariant, nodeEnv>>

\* The rest of the handler: Task.deleteOne, whose result is not looked at,
\* and the success response.
DeleteRemove(r) ==
    /\ apiVariant = "guarded"
    /\ pending[r].pc = "found"
    /\ tasks' = DeleteOne(PutId)
    /\ pending' = [pending EXCEPT ![r].pc = "done", ![r].status = 200,
                                  ![r].deleted = IF PutId \in DOMAIN tasks THEN 1 ELSE 0]
    /\ resp' = Reply("delete", PutSid, PutId, 200, << >>, [req |-> r])
    /\ UNCHANGED <<users, session, nextId, now, apiVariant, nodeEnv>>

\* router.delete('/tarefas/:id') of routes/api.js: findByIdAndDelete is one
\* operation of the store, answering the removed document or null.
DeleteFindAndDelete(r) ==
    LET st == IF PutId \in DOMAIN tasks THEN 200 ELSE 404
    IN  /\ apiVariant = "open"
        /\ pending[r].pc = "start"
        /\ tasks' = DeleteOne(PutId)
        /\ pending' = [pending EXCEPT ![r].pc = "done", ![r].status = st,
                                      ![r].deleted = IF st = 200 THEN 1 ELSE 0]
        /\ resp' = Reply("delete", PutSid, PutId, st, << >>, [req |-> r])
        /\ UNCHANGED <<users, session, nextId, now, apiVariant, nodeEnv>>

\* The documents the task may hold before the requests.
DeleteDocs ==
    { [titulo |-> "Buy milk", concluida |-> c, prioridade |-> pr, user |-> u,
       createdAt |-> 1] : c \in BOOLEAN, pr \in PrioridadeEnum, u \in {"u1", "u2"} }

\* The task is stored; its owner or an admin is logged in.
InitDeletes ==
    /\ users = SeedUsers
    /\ tasks \in {(PutId :> d) : d \in DeleteDocs}
    /\ session \in {[s \in Sessions |-> SessionOf(u)] : u \in {tasks[PutId].user, "adm"}}
    /\ nextId = PutId + 1
    /\ now = 1
    /\ apiVariant \in {"guarded", "open"}
    /\ nodeEnv = "development"
    /\ resp = Reply("start", PutSid, 0, 0, << >>, NoData)
    /\ pending = [r \in Deletes |-> NewDelete]

NextDeletes ==
    \/ \E r \in Deletes : DeleteFind(r)
    \/ \E r \in Deletes : DeleteRemove(r)
    \/ \E r \in Deletes : DeleteFindAndDelete(r)

\* Two authorized DELETE requests, their store operations interleaved.
SpecDeletes == InitDeletes /\ [][NextDeletes]_vars

\* ---- Registration, login and logout ------------------------------------
\* Bodies of POST /cadastro.
RegBodies ==
    LET eve == [nome |-> "Eve", telefone |-> "555", email |-> "eve@x.io", password |-> "eve123"]
    IN  { eve,
          [eve EXCEPT !.email = " Eve@X.io "],
          [eve EXCEPT !.email = "Ana@X.io"],
          [eve EXCEPT !.email = "ana@x.io"],
          [nome |-> "Bob", telefone |-> "555", email |-> "bob@x.io", password |-> "bob123",
           role |-> "admin"],
          [telefone |-> "555", email |-> "eve@x.io", password |-> "eve123"],
          [nome |-> "Eve", email |-> "eve@x.io", password |-> "eve123"],
          [nome |-> "Eve", telefone |-> "555", password |-> "eve123"],
          [nome |-> "Eve", telefone |-> "555", email |-> "eve@x.io"],
          [eve EXCEPT !.nome = "  "],
          [eve EXCEPT !.email = "eve.x.io"],
          [eve EXCEPT !.password = "abc12"] }

\* Bodies of POST /login: email and password, either may be absent.
AuthCredentials ==
    { <<"ana@x.io", "ana123">>, <<"Ana@X.io", "ana123">>, <<"root@x.io", "root12">>,
      <<"eve@x.io", "eve123">>, <<"bob@x.io", "bob123">>,
      <<"ana@x.io", "wrong1">>, <<"zed@x.io", "ana123">>,
      <<"ana@x.io", Undefined>>, <<"zed@x.io", Undefined>> }

NextAuth ==
    \/ \E sid \in Sessions, b \in RegBodies : Cadastro(sid, b)
    \/ \E sid \in Sessions, c \in AuthCredentials : Login(sid, c[1], c[2])
    \/ \E sid \in Sessions : Logout(sid)
    \/ \E sid \in Sessions, view \in {"cadastro", "login"} : GetGuestPage(sid, view)

InitAuth == Init /\ apiVariant = "guarded"

\* The routes of the auth router over the seeded users collection.
SpecAuth == InitAuth /\ [][NextAuth]_vars

\* ---- Imports -------------------------------------------------------------
NextImport ==
    \/ \E sid \in Sessions, c \in Credentials : Login(sid, c[1], c[2])
    \/ \E sid \in Sessions : Logout(sid)
    \/ \E sid \in Sessions, b \in ImportBodies : Importar(sid, b)

\* Imports by the sessions of the seeded users.
SpecImport == InitAuth /\ [][NextImport]_vars

\* ---- A report, store call by store call ---------------------------------
\* The report request before its first store call.
NewReport == [pc |-> "start", total |-> 0, prioridade |-> << >>, concluidas |-> 0, pendentes |-> 0]

\* const total = await Task.countDocuments()
RelatorioTotal(sid) ==
    /\ apiVariant = "guarded"
    /\ pending.pc = "start"
    /\ pending' = [pending EXCEPT !.pc = "total", !.total = Cardinality(DOMAIN tasks)]
    /\ UNCHANGED <<users, session, tasks, nextId, now, apiVariant, nodeEnv, resp>>

\* const porPrioridade = await Task.aggregate([{ $group: ... "$prioridade" }])
\* (the $group by "$category" that follows is a read the model does not keep)
RelatorioPorPrioridade(sid) ==
    /\ pending.pc = "total"
    /\ pending' = [pending EXCEPT !.pc = "grupos", !.prioridade = GroupPrioridade]
    /\ UNCHANGED <<users, session, tasks, nextId, now, apiVariant, nodeEnv, resp>>

\* const concluidas = await Task.countDocuments({ concluida: true })
RelatorioConcluidas(sid) ==
    /\ pending.pc = "grupos"
    /\ pending' = [pending EXCEPT !.pc = "concluidas",
                      !.concluidas = Cardinality({id \in DOMAIN tasks : tasks[id].concluida})]
    /\ UNCHANGED <<users, session, tasks, nextId, now, apiVariant, nodeEnv, resp>>

\* const pendentes = await Task.countDocuments({ concluida: false })
RelatorioPendentes(sid) ==
    /\ pending.pc = "concluidas"
    /\ pending' = [pending EXCEPT !.pc = "pendentes",
                      !.pendentes = Cardinality({id \in DOMAIN tasks : ~tasks[id].concluida})]
    /\ UNCHANGED <<users, session, tasks, nextId, now, apiVariant, nodeEnv, resp>>

\* const ultimasTarefas = await Task.find().sort(...).limit(10); res.json(...)
RelatorioResponde(sid) ==
    /\ pending.pc = "pendentes"
    /\ \E p \in SortLatest(DOMAIN tasks) :
          resp' = Reply("relatorio", sid, 0, 200, Limit(p, UltimasLimit),
                     [total      |-> pending.total,
                      prioridade |-> pending.prioridade,
                      concluidas |-> pending.concluidas,
                      pendentes  |-> pending.pendentes])
    /\ pending' = NewReport
    /\ UNCHANGED <<users, session, tasks, nextId, now, apiVariant, nodeEnv>>

\* Bodies of the requests that write while the report is built.
ReportBodies == { [titulo |-> "Buy milk"], [concluida |-> TRUE], [prioridade |-> "Alta"] }

\* The owner of the tasks is logged in; a report request has arrived.
InitReport ==
    /\ users = SeedUsers
    /\ session = [s \in Sessions |-> SessionOf("u1")]
    /\ tasks = << >>
    /\ nextId = 1
    /\ now = 0
    /\ apiVariant = "guarded"
    /\ nodeEnv = "development"
    /\ resp = Reply("start", "s1", 0, 0, << >>, NoData)
    /\ pending = NewReport

NextReport ==
    \/ \E sid \in Sessions : RelatorioTotal(sid)
    \/ \E sid \in Sessions : RelatorioPorPrioridade(sid)
    \/ \E sid \in Sessions : RelatorioConcluidas(sid)
    \/ \E sid \in Sessions : RelatorioPendentes(sid)
    \/ \E sid \in Sessions : RelatorioResponde(sid)
    \/ \E sid \in Sessions, b \in ReportBodies : PostTarefa(sid, b)
    \/ \E sid \in Sessions, id \in TaskIds, b \in ReportBodies : PutTarefa(sid, id, b)
    \/ \E sid \in Sessions, id \in TaskIds : DeleteTarefa(sid, id)

\* Report requests whose store calls interleave with the writes of other
\* requests.
SpecReport == InitReport /\ [][NextReport]_vars

\* ---- Sessions among registrations, logins and task requests -------------
NextIdentity ==
    \/ \E sid \in Sessions, b \in RegBodies : Cadastro(sid, b)
    \/ \E sid \in Sessions, c \in AuthCredentials : Login(sid, c[1], c[2])
    \/ \E sid \in Sessions : Logout(sid)
    \/ \E sid \in Sessions, b \in ReportBodies : PostTarefa(sid, b)
    \/ \E sid \in Sessions, id \in TaskIds : PutTarefa(sid, id, EmptyBody)
    \/ \E sid \in Sessions, id \in TaskIds : DeleteTarefa(sid, id)

\* The auth router and the task requests of part_003.
SpecIdentity == InitAuth /\ [][NextIdentity]_vars

\* ---- The listings as functions of the collection ------------------------
\* Documents a tasks collection can hold, fields drawn from small sets; a
\* document may lack prioridade or carry a value outside the enum (the
\* $switch has a default branch for both).
Completions == <<FALSE, TRUE>>

Priorities == <<"Alta", "Média", "Baixa", "Urgente", "(missing)">>

Times == <<1, 2>>

Tags == <<[user |-> "u1", category |-> "Tarefa"], [user |-> "u2", category |-> "Carro"]>>

Kinds == (DOMAIN Completions) \X (DOMAIN Priorities) \X (DOMAIN Times) \X (DOMAIN Tags)

Doc(k) ==
    LET base == [titulo    |-> "Buy milk",
                 concluida |-> Completions[k[1]],
                 user      |-> Tags[k[4]].user,
                 category  |-> Tags[k[4]].category,
                 createdAt |-> Times[k[3]]]
    IN  IF Priorities[k[2]] = "(missing)" THEN base
        ELSE ("prioridade" :> Priorities[k[2]]) @@ base

\* k1 is not after k2 in the lexicographic order of kinds.
KindLeq(k1, k2) ==
    \/ k1[1] < k2[1]
    \/ k1[1] = k2[1] /\ k1[2] < k2[2]
    \/ k1[1] = k2[1] /\ k1[2] = k2[2] /\ k1[3] < k2[3]
    \/ k1[1] = k2[1] /\ k1[2] = k2[2] /\ k1[3] = k2[3] /\ k1[4] <= k2[4]

\* The collections of at most MaxDocs documents, one per multiset of kinds
\* (which _id a document got does not enter any query of the listings).
Collections ==
    {[i \in DOMAIN q |-> Doc(q[i])] :
        q \in {q \in SeqsUpTo(Kinds, MaxDocs) :
                  \A i \in DOMAIN q : i < Len(q) => KindLeq(q[i], q[i + 1])}}

InitRank ==
    /\ users = SeedUsers
    /\ session \in {[s \in Sessions |-> d] : d \in {EmptySession, SessionOf("u1"), SessionOf("u2")}}
    /\ tasks \in Collections
    /\ nextId = Len(tasks) + 1
    /\ now = 2
    /\ apiVariant = "guarded"
    /\ nodeEnv = "development"
    /\ resp = Reply("start", "s1", 0, 0, << >>, NoData)
    /\ pending = << >>

\* One listing request on the collection drawn.
NextRank ==
    \/ resp.op = "start" /\ \E sid \in Sessions : ApiGetTarefas(sid)
    \/ resp.op = "start" /\ \E sid \in Sessions : Home(sid)
    \/ resp.op = "start" /\ \E sid \in Sessions : PageTarefasUsuario(sid)
    \/ resp.op = "start" /\ \E sid \in Sessions : PageTarefasEquipe(sid)
    \/ resp.op = "start" /\ \E sid \in Sessions, c \in Categories : PageCategoria(sid, c)

\* The listing handlers over every collection of at most MaxDocs documents.
SpecRank == InitRank /\ [][NextRank]_vars

\* Requests to the ranked listings, one after another.
NextRepeat ==
    \/ \E sid \in Sessions : PageTarefasUsuario(sid)
    \/ \E sid \in Sessions : PageTarefasEquipe(sid)
    \/ \E sid \in Sessions, c \in Categories : PageCategoria(sid, c)

\* The ranked listings requested repeatedly on one collection.
SpecRepeat == InitRank /\ [][NextRepeat]_vars

\* ---- A store call rejects, a middleware throws ---------------------------
\* error.message of the error a store call rejects with or a middleware
\* throws.
InternalError == "MongoNetworkError: connection 3 to db:27017 closed"

\* The API handlers that call the store.
FailingOps == {"api_list", "exportar", "relatorio", "post", "importar", "put", "delete"}

\* The body a handler sends from its catch block: message, and error where
\* the handler sends one.
Failure(status, message, error) == [status |-> status, message |-> message, error |-> error]

\* The catch blocks of part_003, entered with error.
CatchGuarded(op, error) ==
    CASE op = "api_list"  -> Failure(500, "Erro no servidor ao buscar tarefas.", None)
      [] op = "exportar"  -> Failure(500, "Erro ao exportar CSV", error)
      [] op = "relatorio" -> Failure(500, "Erro ao gerar relatório", error)
      [] op = "post"      -> Failure(400, error, None)
      [] op = "importar"  -> Failure(200, "Importação finalizada", error)
      [] op = "put"       -> Failure(400, error, None)
      [] op = "delete"    -> Failure(500, error, None)

\* The catch blocks of routes/api.js, entered with error.
CatchOpen(op, error) ==
    CASE op = "api_list"  -> Failure(500, "Erro no servidor ao buscar tarefas.", None)
      [] op = "post"      -> Failure(400, "Dados inválidos. Verifique os campos enviados.", error)
      [] op = "put"       -> Failure(400, "Erro ao atualizar a tarefa.", error)
      [] op = "delete"    -> Failure(500, "Erro no servidor ao deletar a tarefa.", None)

\* The handlers of part_003 behind isAuthenticated.
GatedOps == {"post", "importar", "put", "delete"}

\* A request to handler op whose first store call rejects: the handler's
\* catch block answers, the store is as it was.  (The import catches the
\* rejection of Task.create per item and reports it as the item's motivo.)
StoreRejects(sid, op) ==
    LET out == IF apiVariant = "guarded"
               THEN CatchGuarded(op, InternalError)
               ELSE CatchOpen(op, InternalError)
    IN  /\ apiVariant = "open" => op \in {"api_list", "post", "put", "delete"}
        /\ resp' = IF apiVariant = "guarded" /\ op \in GatedOps /\ ~IsAuthenticated(session[sid])
                   THEN Reply(op, sid, 0, 302, << >>, NoData)
                   ELSE Reply(op, sid, 0, out.status, << >>,
                              [message |-> out.message, error |-> out.error])
        /\ UNCHANGED <<users, session, tasks, nextId, now, apiVariant, nodeEnv, pending>>

\* errorId: Math.random().toString(36).substr(2, 9)
ErrorIds == {"k3x9a01zq", "7f2m4c8pd"}

\* The JSON the error-handling middleware answers an /api request with.
ErrorBody(env, error, errorId) ==
    [error   |-> "Erro interno do servidor",
     message |-> IF env = "development" THEN error ELSE "Algo deu errado.",
     errorId |-> errorId]

\* app.use((error, req, res, next) => ...) for an /api request: an error
\* passed to next() or thrown outside the handlers' try blocks.
ErrorMiddleware(sid) ==
    /\ \E errorId \in ErrorIds :
          resp' = Reply("error", sid, 0, 500, << >>, ErrorBody(nodeEnv, InternalError, errorId))
    /\ UNCHANGED <<users, session, tasks, nextId, now, apiVariant, nodeEnv, pending>>

NextErrors ==
    \/ \E sid \in Sessions, c \in Credentials : Login(sid, c[1], c[2])
    \/ \E sid \in Sessions : Logout(sid)
    \/ \E sid \in Sessions, op \in FailingOps : StoreRejects(sid, op)
    \/ \E sid \in Sessions : ErrorMiddleware(sid)

\* The application started in either mode.
InitErrors ==
    /\ users = SeedUsers
    /\ session = [s \in Sessions |-> EmptySession]
    /\ tasks = << >>
    /\ nextId = 1
    /\ now = 0
    /\ apiVariant \in {"guarded", "open"}
    /\ nodeEnv \in NodeEnvs
    /\ resp = Reply("start", "s1", 0, 0, << >>, NoData)
    /\ pending = << >>

\* Requests that fail in the store or before their handler.
SpecErrors == InitErrors /\ [][NextErrors]_vars

\* ------------------------------------------------------------- properties
\* The session of the latest request, and the i-th task of its listing.
Requester == session[resp.sid]

Listed(i) == tasks[resp.list[i]]

\* The listings that run the aggregate of the /tarefas page.
RankedOps == {"page_usuario", "page_equipe", "page_categoria"}

\* The listings that run Task.find().sort(...).
FindOps == {"api_list", "home"}

\* C1 -- Under the router of part_003, a PUT or DELETE by a logged-in session
\* on an existing task gets past the authorization (200, or 400 from the
\* validators; a DELETE answered 200 removes the task) exactly when the
\* session role is admin or the session userId is the task's owner; in every
\* other case the answer is 403 and the store is unchanged.
C1_PermittedIffAdminOrOwner ==
    [][(/\ apiVariant = "guarded"
        /\ resp'.op \in {"put", "delete"}
        /\ session[resp'.sid].userId # None
        /\ resp'.id \in DOMAIN tasks)
       => LET s       == session[resp'.sid]
              allowed == s.userRole = "admin" \/ s.userId = tasks[resp'.id].user
          IN  IF allowed
              THEN /\ resp'.status \in {200, 400}
                   /\ (resp'.op = "delete" => resp'.status = 200)
                   /\ (resp'.op = "delete" => resp'.id \notin DOMAIN tasks')
              ELSE /\ resp'.status = 403
                   /\ tasks' = tasks]_vars

\* A non-admin was refused the deletion of another user's task.
C1_Witness ==
    /\ apiVariant = "guarded"
    /\ resp.op = "delete"
    /\ resp.status = 403
    /\ resp.id \in DOMAIN tasks
    /\ Requester.userId \notin {None, tasks[resp.id].user}
    /\ Requester.userRole = "user"

\* C2 -- A create, import, update or delete request whose session has no
\* userId is answered with the redirect to /login and leaves the tasks
\* collection unchanged.
C2_AnonymousNeverMutates ==
    [][(/\ resp'.op \in {"post", "importar", "put", "delete"}
        /\ session[resp'.sid].userId = None)
       => (resp'.status = 302 /\ tasks' = tasks)]_vars

\* A request without a logged-in session deleted a task.
C2_Witness ==
    /\ resp.op = "delete"
    /\ resp.status = 200
    /\ Requester.userId = None
    /\ resp.id \notin DOMAIN tasks

\* C3 -- No request changes the owner of a task that stays in the store.
C3_OwnerNeverChanges ==
    [][\A id \in (DOMAIN tasks) \cap (DOMAIN tasks') :
          tasks'[id].user = tasks[id].user]_vars

\* An update by a non-admin session left the task owned by another user.
C3_Witness ==
    /\ apiVariant = "guarded"
    /\ resp.op = "put"
    /\ resp.status = 200
    /\ Requester.userRole = "user"
    /\ tasks[resp.id].user # Requester.userId

\* C4 -- Every task stored by POST /api/tarefas or by the import has the
\* userId of the caller's session as its owner.
C4_OwnerIsSessionUser ==
    [][resp'.op \in {"post", "importar"}
       => \A id \in (DOMAIN tasks') \ (DOMAIN tasks) :
             tasks'[id].user = session[resp'.sid].userId]_vars

\* A created task is owned by a user who is not the caller.
C4_Witness ==
    /\ resp.op = "post"
    /\ resp.status = 201
    /\ tasks[resp.id].user # Requester.userId

\* The weights the ranking is specified with: Alta 3, Média 2, Baixa 1, and 2
\* for a priority that is missing or is any other value.
ClaimedWeight(t) ==
    IF "prioridade" \in DOMAIN t /\ t.prioridade = "Alta" THEN 3
    ELSE IF "prioridade" \in DOMAIN t /\ t.prioridade = "Baixa" THEN 1
    ELSE 2

\* C5 -- In a ranked listing no completed task comes before an incomplete
\* one, whatever their priorities and creation times, and the listing of an
\* empty collection is the empty sequence.
C5_IncompleteFirst ==
    (resp.op \in RankedOps /\ resp.status = 200)
    => /\ \A i, j \in DOMAIN resp.list :
             i < j => ~(Listed(i).concluida /\ ~Listed(j).concluida)
       /\ (DOMAIN tasks = {} => resp.list = << >>)

\* An older incomplete Baixa task is listed before a newer completed Alta one.
C5_Witness ==
    /\ resp.op \in RankedOps
    /\ Len(resp.list) = 2
    /\ ~Listed(1).concluida
    /\ Listed(2).concluida
    /\ "prioridade" \in DOMAIN Listed(1) /\ Listed(1).prioridade = "Baixa"
    /\ "prioridade" \in DOMAIN Listed(2) /\ Listed(2).prioridade = "Alta"
    /\ Listed(1).createdAt < Listed(2).createdAt

\* C6 -- In a ranked listing, tasks of equal completion status are in
\* descending order of the weight Alta 3, Média 2, Baixa 1, with weight 2 for
\* a task whose priority is missing or is any other value.
C6_PriorityWeightDescending ==
    (resp.op \in RankedOps /\ resp.status = 200)
    => \A i, j \in DOMAIN resp.list :
          (i < j /\ Listed(i).concluida = Listed(j).concluida)
          => ClaimedWeight(Listed(i)) >= ClaimedWeight(Listed(j))

\* An older task without priority is listed before a newer Baixa task.
C6_Witness ==
    /\ resp.op \in RankedOps
    /\ Len(resp.list) = 2
    /\ Listed(1).concluida = Listed(2).concluida
    /\ "prioridade" \notin DOMAIN Listed(1)
    /\ "prioridade" \in DOMAIN Listed(2) /\ Listed(2).prioridade = "Baixa"
    /\ Listed(1).createdAt < Listed(2).createdAt

\* C7 -- In a ranked listing, of two tasks with equal completion status and
\* equal priority weight the one created later comes first.
C7_NewestFirstOnEqualWeight ==
    (resp.op \in RankedOps /\ resp.status = 200)
    => \A i, j \in DOMAIN resp.list :
          (/\ i < j
           /\ Listed(i).concluida = Listed(j).concluida
           /\ ClaimedWeight(Listed(i)) = ClaimedWeight(Listed(j)))
          => Listed(i).createdAt >= Listed(j).createdAt

\* A later task of unknown priority is listed before an earlier Média task.
C7_Witness ==
    /\ resp.op \in RankedOps
    /\ Len(resp.list) = 2
    /\ Listed(1).concluida = Listed(2).concluida
    /\ "prioridade" \in DOMAIN Listed(1) /\ Listed(1).prioridade = "Urgente"
    /\ "prioridade" \in DOMAIN Listed(2) /\ Listed(2).prioridade = "Média"
    /\ Listed(1).createdAt > Listed(2).createdAt

ListingOps == FindOps \cup RankedOps \cup {"exportar", "relatorio"}

\* C9 -- A listing answered to a logged-in session whose role is not admin
\* holds only tasks owned by the session's user.
C9_OnlyOwnTasksListed ==
    (/\ resp.op \in ListingOps
     /\ Requester.userId # None
     /\ Requester.userRole # "admin")
    => \A i \in DOMAIN resp.list : Listed(i).user = Requester.userId

\* The /tarefas page answered to a non-admin lists a task of another user.
C9_Witness ==
    /\ resp.op = "page_equipe"
    /\ Requester.userRole = "user"
    /\ \E i \in DOMAIN resp.list : Listed(i).user # Requester.userId

\* C10 -- A read request without a logged-in session is answered with no
\* task: the listing is empty and a report counts no task.
C10_ReadsRequireSession ==
    (resp.op \in ListingOps /\ Requester.userId = None)
    => /\ resp.list = << >>
       /\ ("total" \in DOMAIN resp.data => resp.data.total = 0)

\* The CSV export answered a request without a session with a stored task.
C10_Witness ==
    /\ resp.op = "exportar"
    /\ Requester.userId = None
    /\ resp.status = 200
    /\ resp.list # << >>

\* C11 -- Under the router of part_003, a PUT or DELETE by a logged-in session
\* on an :id that names no stored task is answered 404 and leaves the store
\* unchanged, whatever the session role, and 403 is answered only for an :id
\* that names a stored task.
C11_NotFoundBeforeForbidden ==
    [][(/\ apiVariant = "guarded"
        /\ resp'.op \in {"put", "delete"}
        /\ session[resp'.sid].userId # None)
       => /\ (resp'.id \notin DOMAIN tasks => (resp'.status = 404 /\ tasks' = tasks))
          /\ (resp'.status = 403 => resp'.id \in DOMAIN tasks)]_vars

\* A logged-in DELETE on an :id that names no task was answered 500.
C11_Witness ==
    /\ apiVariant = "guarded"
    /\ resp.op = "delete"
    /\ Requester.userId # None
    /\ resp.id \notin DOMAIN tasks
    /\ resp.status = 500

\* C11 for the ids that are ObjectId strings: not found is answered 404
\* before the authorization is looked at.
C11_NotFoundBeforeForbiddenOnObjectIds ==
    [][(/\ apiVariant = "guarded"
        /\ resp'.op \in {"put", "delete"}
        /\ session[resp'.sid].userId # None
        /\ resp'.id # MalformedId)
       => /\ (resp'.id \notin DOMAIN tasks => (resp'.status = 404 /\ tasks' = tasks))
          /\ (resp'.status = 403 => resp'.id \in DOMAIN tasks)]_vars

\* Lowercase/trim normalization of an email, as the uniqueness is specified.
NormalizedEmail(email) == Lower(Trim(email))

\* C12 -- No two stored users have emails that are equal after lowercase/trim
\* normalization, and a registration whose email is, after normalization,
\* the email of a stored user is answered with the duplicate-email error and
\* stores no user.
C12_EmailsUniqueNormalized ==
    /\ [](\A u, v \in DOMAIN users :
            u # v => NormalizedEmail(users[u].email) # NormalizedEmail(users[v].email))
    /\ [][\A sid \in Sessions, b \in RegBodies :
            (/\ Cadastro(sid, b)
             /\ "email" \in DOMAIN b
             /\ \E u \in DOMAIN users :
                   NormalizedEmail(users[u].email) = NormalizedEmail(b.email))
            => (users' = users /\ resp'.data.error = EmailJaCadastrado)]_vars

\* A registration with the email of a stored user in another case was
\* answered with the duplicate-email error.
C12_Witness ==
    /\ resp.op = "cadastro"
    /\ resp.status = 200
    /\ resp.data.error = EmailJaCadastrado
    /\ resp.data.email = "Ana@X.io"
    /\ \E u \in DOMAIN users : users[u].email = "ana@x.io"

\* The credentials are those of a stored user.
RightCredentials(email, password) ==
    \E u \in DOMAIN users :
        users[u].email = NormalizedEmail(email) /\ users[u].password = Hash(password)

\* C13 -- Every login attempt that does not carry the credentials of a
\* stored user (the email is not registered, or it is and the secret is not
\* the user's) gets one and the same response, the login page with the
\* message for invalid credentials, and leaves the session as it was.
C13_LoginFailureUniform ==
    [][\A sid \in Sessions, c \in AuthCredentials :
          (Login(sid, c[1], c[2]) /\ ~RightCredentials(c[1], c[2]))
          => /\ resp' = Reply("login", sid, 0, 200, << >>,
                            [view |-> "login", error |-> LoginInvalido])
             /\ session' = session]_vars

\* A failed login was answered with the other error message.
C13_Witness ==
    /\ resp.op = "login"
    /\ resp.status = 200
    /\ resp.data.error = LoginErro

\* The registration bodies the validation is specified to refuse.
ClaimedInvalidUser(b) ==
    \/ \E k \in {"nome", "telefone", "email", "password"} :
          k \notin DOMAIN b \/ b[k] \in {"", "  "}
    \/ b.email = "eve.x.io"
    \/ StrLen(b.password) < 6

\* C14 -- A registration with a missing name, phone, email or secret, with
\* an email that does not match the address pattern, or with a secret
\* shorter than 6 characters stores no user and is answered with the
\* registration page carrying an error: the validation error, unless the
\* email is already registered (then the duplicate-email error).
C14_InvalidRegistrationRefused ==
    [][\A sid \in Sessions, b \in RegBodies :
          (Cadastro(sid, b) /\ ClaimedInvalidUser(b))
          => /\ users' = users
             /\ resp'.status = 200
             /\ resp'.data.view = "cadastro"
             /\ resp'.data.error \in {ValidationFailed, EmailJaCadastrado}
             /\ (resp'.data.error = EmailJaCadastrado
                   => \E u \in DOMAIN users : users[u].email = NormalizedEmail(b.email))]_vars

\* A registration was answered with the validation error.
C14_Witness ==
    /\ resp.op = "cadastro"
    /\ resp.status = 200
    /\ resp.data.error = ValidationFailed

\* C15 -- Every registered user has role user, no request changes the role
\* of a stored user, and a session logged in as a registered user carries
\* role user.
C15_NoSelfPromotion ==
    /\ [](\A u \in Registered : users[u].role = "user")
    /\ [](\A sid \in Sessions :
            session[sid].userId \in Registered => session[sid].userRole = "user")
    /\ [][\A u \in (DOMAIN users) \cap (DOMAIN users') :
            users'[u].role = users[u].role]_vars

\* The user registered with role admin in the body is logged in.
C15_Witness ==
    /\ Requester.userId \in Registered
    /\ users[Requester.userId].nome = "Bob"
    /\ Requester.userRole = "user"

\* C16 -- A POST /cadastro or POST /login of a logged-in session is answered
\* with a redirect, stores no user and leaves the session as it was.
C16_GuestOnlyPosts ==
    [][(/\ resp'.op \in {"cadastro", "login"}
        /\ session[resp'.sid].userId # None)
       => /\ resp'.status = 302
          /\ users' = users
          /\ session' = session]_vars

\* A logged-in session registered a user.
C16_Witness ==
    /\ resp.op = "cadastro"
    /\ resp.status = 302
    /\ Requester.userId # None
    /\ Registered # {}

ClaimedInvalidTask(b) ==
    \/ "titulo" \notin DOMAIN b
    \/ b.titulo = ""
    \/ StrLen(b.titulo) > 100
    \/ ("descricao" \in DOMAIN b /\ StrLen(b.descricao) > 500)
    \/ ("prioridade" \in DOMAIN b /\ b.prioridade \notin {"Baixa", "Média", "Alta"})

\* C18 -- A POST /api/tarefas with a missing title, a title longer than 100
\* characters, a description longer than 500 characters or a priority
\* outside {Baixa, Média, Alta} adds no task and is answered 400 (under the
\* router of part_003 a session that is not logged in is redirected before
\* the body is looked at).
C18_InvalidTaskRefused ==
    [][\A sid \in Sessions, b \in Bodies :
          (/\ PostTarefa(sid, b) \/ PostTarefaOpen(sid, b)
           /\ ClaimedInvalidTask(b))
          => /\ tasks' = tasks
             /\ IF apiVariant = "guarded" /\ session[sid].userId = None
                THEN resp'.status = 302
                ELSE resp'.status = 400]_vars

\* A logged-in POST was answered 400 and the store is empty.
C18_Witness ==
    /\ apiVariant = "guarded"
    /\ resp.op = "post"
    /\ resp.status = 400
    /\ Requester.userId # None
    /\ tasks = << >>

\* C19 -- A PUT with an empty body on a stored task, by a session allowed to
\* update it, is answered 200 with the task as it was and leaves the store
\* unchanged; when it follows the POST that created the task, the task it
\* returns and stores is the one the POST returned.
C19_EmptyUpdateRoundTrip ==
    [][\A sid \in Sessions, id \in TaskIds :
          (/\ PutTarefa(sid, id, EmptyBody) \/ PutTarefaOpen(sid, id, EmptyBody)
           /\ id \in DOMAIN tasks
           /\ \/ apiVariant = "open"
              \/ session[sid].userRole = "admin"
              \/ session[sid].userId = tasks[id].user)
          => /\ resp'.status = 200
             /\ resp'.data.task = tasks[id]
             /\ tasks' = tasks
             /\ (resp.op = "post" /\ resp.status = 201 /\ resp.id = id)
                  => (resp'.data.task = resp.data.task /\ tasks'[id] = resp.data.task)]_vars

\* An update with no field returned the stored task, which has the priority
\* it was created with.
C19_Witness ==
    /\ resp.op = "put"
    /\ resp.status = 200
    /\ resp.data.task = tasks[resp.id]
    /\ tasks[resp.id].prioridade = "Alta"
    /\ tasks[resp.id].user = Requester.userId

\* Both requests have written.
BothWritten == \A r \in Puts : pending[r].pc = "done"

\* The request that wrote last, and the one that wrote first.
LastPut == CHOOSE r \in Puts : pending[r].seq = Cardinality(Puts)

FirstPut == CHOOSE r \in Puts : pending[r].seq = 1

\* C20 (as stated) -- Whatever the order of the reads and writes of two
\* authorized PUT requests on a task, both are answered 200 and the stored
\* task ends equal to the task of the request that wrote last.
C20_LastWriteWins ==
    /\ \A r \in Puts : pending[r].pc # "failed"
    /\ BothWritten => tasks[PutId] = pending[LastPut].doc

\* The request changed field k of the task it read.
Changed(r, k) ==
    k \notin DOMAIN pending[r].read \/ pending[r].doc[k] # pending[r].read[k]

\* C20 (amended) -- Whatever the order of the reads and writes of two
\* authorized PUT requests on a task, neither fails, and once both have
\* written every field of the stored task has the value given by the last
\* writer among the requests that changed that field in the task they read;
\* a field neither changed keeps its value.  When the last writer read after
\* the first wrote, the stored task is the last writer's task.
C20_FieldwiseLastWriteWins ==
    /\ \A r \in Puts : pending[r].pc # "failed"
    /\ BothWritten =>
          /\ \A k \in DOMAIN tasks[PutId] :
                tasks[PutId][k] =
                    IF Changed(LastPut, k) THEN pending[LastPut].doc[k]
                    ELSE IF Changed(FirstPut, k) THEN pending[FirstPut].doc[k]
                    ELSE pending[FirstPut].read[k]
          /\ (pending[LastPut].read = pending[FirstPut].doc
                => tasks[PutId] = pending[LastPut].doc)

\* Under the router of part_003 both requests have written and the stored
\* task is the task of neither.
C20_Witness ==
    /\ apiVariant = "guarded"
    /\ BothWritten
    /\ \A r \in Puts : tasks[PutId] # pending[r].doc

\* The failed requests: answered by a catch block or by the middleware.
FailedOps == FailingOps \cup {"error"}

\* C21 -- Outside development mode no response to a request that failed in
\* the store or in a middleware carries the internal error message in any
\* field of its body.
C21_NoInternalMessageOutsideDevelopment ==
    (/\ nodeEnv # "development"
     /\ resp.op \in FailedOps)
    => \A k \in DOMAIN resp.data : resp.data[k] # InternalError

\* In production the CSV export answered 500 with the internal message.
C21_Witness ==
    /\ nodeEnv = "production"
    /\ resp.op = "exportar"
    /\ resp.status = 500
    /\ resp.data.error = InternalError

\* C22 -- A PUT or DELETE answered 403 or 404 leaves the tasks collection as
\* it was: no task is removed and no field of any task is changed.
C22_RefusalLeavesStoreUnchanged ==
    [][(resp'.op \in {"put", "delete"} /\ resp'.status \in {403, 404})
       => tasks' = tasks]_vars

\* A DELETE of another user's task was answered 403 and the task is stored.
C22_Witness ==
    /\ resp.op = "delete"
    /\ resp.status = 403
    /\ resp.id \in DOMAIN tasks
    /\ tasks[resp.id].user # Requester.userId

\* The fields of a task the constraints are about, and the completion flag.
MergedFields == {"titulo", "descricao", "concluida", "prioridade"}

\* The value of field k after the provided fields are merged over the task.
Merged(task, b, k) == IF k \in DOMAIN b THEN b[k] ELSE task[k]

\* The merged task violates a constraint: empty title, title over 100
\* characters, description over 500, priority outside the enum.
ClaimedInvalidMerge(task, b) ==
    \/ Merged(task, b, "titulo") = ""
    \/ StrLen(Merged(task, b, "titulo")) > 100
    \/ ("descricao" \in DOMAIN b /\ StrLen(b.descricao) > 500)
    \/ Merged(task, b, "prioridade") \notin {"Baixa", "Média", "Alta"}

\* C23 -- A PUT on a stored task by a session allowed to update it (under
\* the router of routes/api.js: any PUT) merges the provided fields over the
\* stored task and validates the result: when the merged task has an empty
\* title, a title over 100 characters, a description over 500 or a priority
\* outside the enum the answer is 400 and the store is unchanged; otherwise
\* the answer is 200 and title, description, completion and priority of the
\* stored and returned task are the provided values over the previous ones.
C23_MergeThenRevalidate ==
    [][\A sid \in Sessions, id \in TaskIds, b \in Bodies :
          (/\ PutTarefa(sid, id, b) \/ PutTarefaOpen(sid, id, b)
           /\ id \in DOMAIN tasks
           /\ \/ apiVariant = "open"
              \/ session[sid].userRole = "admin"
              \/ session[sid].userId = tasks[id].user)
          => IF ClaimedInvalidMerge(tasks[id], b)
             THEN resp'.status = 400 /\ tasks' = tasks
             ELSE /\ resp'.status = 200
                  /\ resp'.data.task = tasks'[id]
                  /\ \A k \in MergedFields :
                        IF k \in DOMAIN b \/ k \in DOMAIN tasks[id]
                        THEN k \in DOMAIN tasks'[id] /\ tasks'[id][k] = Merged(tasks[id], b, k)
                        ELSE k \notin DOMAIN tasks'[id]]_vars

\* The owner's update of a stored task was answered 400 and the task has
\* the title and priority it was created with.
C23_Witness ==
    /\ apiVariant = "guarded"
    /\ resp.op = "put"
    /\ resp.status = 400
    /\ resp.id \in DOMAIN tasks
    /\ tasks[resp.id].user = Requester.userId
    /\ tasks[resp.id].titulo = "Buy milk"
    /\ tasks[resp.id].prioridade = "Alta"

\* The ids of the tasks that were stored and have been deleted (the store
\* hands out the ids 1, 2, ... and never one twice).
Deleted == (1..(nextId - 1)) \ DOMAIN tasks

\* C24 -- A DELETE answered 200 leaves its task out of the store; a deleted
\* task never comes back; every listing, export and report holds and counts
\* stored tasks only; and a later PUT or DELETE on a deleted id changes
\* nothing and is answered 404 (under the router of part_003 a session that
\* is not logged in is redirected before the id is looked at; under the
\* router of routes/api.js a PUT is answered 400 or 404, 400 being the answer
\* to a body the validators refuse).
C24_DeletionPermanent ==
    /\ [](\A i \in DOMAIN resp.list : resp.list[i] \in DOMAIN tasks)
    /\ [](resp.op = "relatorio" =>
            /\ resp.data.total = Cardinality(DOMAIN tasks)
            /\ resp.data.concluidas + resp.data.pendentes = Cardinality(DOMAIN tasks))
    /\ [][(resp'.op = "delete" /\ resp'.status = 200)
            => (resp'.id \in DOMAIN tasks /\ resp'.id \in Deleted')]_vars
    /\ [][Deleted \subseteq Deleted']_vars
    /\ [][(resp'.op \in {"put", "delete"} /\ resp'.id \in Deleted)
            => /\ tasks' = tasks
               /\ resp'.status \in
                     IF apiVariant = "guarded"
                     THEN (IF session[resp'.sid].userId = None THEN {302} ELSE {404})
                     ELSE (IF resp'.op = "put" THEN {400, 404} ELSE {404})]_vars

\* A PUT by a logged-in session on the id of a deleted task was answered 404.
C24_Witness ==
    /\ resp.op = "put"
    /\ resp.status = 404
    /\ resp.id \in Deleted
    /\ Requester.userId # None

\* C25 -- Two requests to the same ranked listing, by the same session and
\* with the same filter, over the same tasks collection are answered with
\* the tasks in the same order, tasks that are equal in completion, priority
\* weight and creation time included.
C25_SameOrderOnSameStore ==
    [][(/\ resp.op \in RankedOps
        /\ resp'.op = resp.op
        /\ resp'.sid = resp.sid
        /\ resp'.data = resp.data
        /\ resp.status = 200 /\ resp'.status = 200
        /\ tasks' = tasks /\ session' = session)
       => resp'.list = resp.list]_vars

\* A ranked listing holds two tasks equal in completion, priority weight and
\* creation time.
C25_Witness ==
    /\ resp.op \in RankedOps
    /\ resp.status = 200
    /\ Len(resp.list) = 2
    /\ Listed(1).concluida = Listed(2).concluida
    /\ PriorityOrder(Listed(1)) = PriorityOrder(Listed(2))
    /\ Listed(1).createdAt = Listed(2).createdAt

\* C26 -- A task created by POST /api/tarefas with a category in the body is
\* stored with that category, and a category page lists exactly the stored
\* tasks of its category.
C26_CategoryStoredAndListed ==
    /\ [][\A sid \in Sessions, b \in Bodies :
            (/\ PostTarefa(sid, b) \/ PostTarefaOpen(sid, b)
             /\ resp'.status = 201
             /\ "category" \in DOMAIN b)
            => /\ "category" \in DOMAIN tasks'[resp'.id]
               /\ tasks'[resp'.id].category = b.category]_vars
    /\ []((resp.op = "page_categoria" /\ resp.status = 200)
            => {resp.list[i] : i \in DOMAIN resp.list} =
                  {id \in DOMAIN tasks : /\ "category" \in DOMAIN tasks[id]
                                         /\ tasks[id].category = resp.data.category})

\* The task created from the body with category 'Tarefa' (the one with
\* priority Alta) is stored without a category, and the page of 'Tarefa'
\* lists nothing.
C26_Witness ==
    /\ resp.op = "page_categoria"
    /\ resp.status = 200
    /\ resp.data.category = "Tarefa"
    /\ resp.list = << >>
    /\ \E id \in DOMAIN tasks :
          /\ tasks[id].prioridade = "Alta"
          /\ "category" \notin DOMAIN tasks[id]

\* The items the import is specified to count as failures: no titulo, or
\* refused by the validators.
ClaimedFailure(item) ==
    \/ "titulo" \notin DOMAIN item
    \/ item.titulo = ""
    \/ StrLen(item.titulo) > 100
    \/ ("descricao" \in DOMAIN item /\ StrLen(item.descricao) > 500)
    \/ ("prioridade" \in DOMAIN item /\ item.prioridade \notin {"Baixa", "Média", "Alta"})

\* What the import of a logged-in session is specified to do with body b.
ClaimedImport(sid, b) ==
    IF ~b.array
    THEN resp'.status = 400 /\ tasks' = tasks
    ELSE LET good == {i \in DOMAIN b.items : ~ClaimedFailure(b.items[i])}
             new  == (DOMAIN tasks') \ (DOMAIN tasks)
         IN  /\ resp'.status = 200
             /\ resp'.data.criadas + resp'.data.falhas = Len(b.items)
             /\ resp'.data.criadas = Cardinality(good)
             /\ Cardinality(new) = resp'.data.criadas
             /\ \A id \in DOMAIN tasks : id \in DOMAIN tasks' /\ tasks'[id] = tasks[id]
             /\ \A id \in new : tasks'[id].user = session[sid].userId

\* C27 -- An import by a logged-in session with an array of n items is
\* answered with criadas + falhas = n, criadas being the number of items
\* that have a titulo and pass the validators, wherever they stand in the
\* array, and adds exactly criadas tasks, each owned by the session user; a
\* body that is no array is answered 400 and adds nothing.
C27_ImportCounts ==
    [][\A sid \in Sessions, b \in ImportBodies :
          (Importar(sid, b) /\ session[sid].userId # None)
          => ClaimedImport(sid, b)]_vars

\* C27 for the arrays whose items are objects.
C27_ImportCountsOfObjects ==
    [][\A sid \in Sessions, b \in ImportBodies :
          (/\ Importar(sid, b)
           /\ session[sid].userId # None
           /\ \A i \in DOMAIN b.items : b.items[i] # NullItem)
          => ClaimedImport(sid, b)]_vars

\* An import was answered 500 without counts and a task it created before
\* the null item is stored.
C27_Witness ==
    /\ resp.op = "importar"
    /\ resp.status = 500
    /\ resp.data.error = NullTypeError
    /\ tasks # << >>

\* The sum of the counts of a $group result.
RECURSIVE SumCounts(_)
SumCounts(f) ==
    IF DOMAIN f = {} THEN 0
    ELSE LET k == CHOOSE k \in DOMAIN f : TRUE
         IN  f[k] + SumCounts([j \in (DOMAIN f) \ {k} |-> f[j]])

\* C28 -- In every report completed + pending = total and the counts per
\* priority sum to total, whatever other requests write between the store
\* calls of the report.
C28_ReportConsistent ==
    resp.op = "relatorio"
    => /\ resp.data.concluidas + resp.data.pendentes = resp.data.total
       /\ SumCounts(resp.data.prioridade) = resp.data.total

\* A report counts no task in total and one pending task.
C28_Witness ==
    /\ resp.op = "relatorio"
    /\ resp.data.total = 0
    /\ resp.data.concluidas = 0
    /\ resp.data.pendentes = 1

\* Both DELETE requests have been answered.
BothAnswered == \A r \in Deletes : pending[r].pc = "done"

\* C29 -- A DELETE is answered 200 only when its own store operation removed
\* the task, and of two authorized DELETE requests on one task, however
\* their lookups and removals interleave, one is answered 200 and the other
\* 404.
C29_ExactlyOneDeleteSucceeds ==
    /\ \A r \in Deletes :
          (pending[r].pc = "done" /\ pending[r].status = 200) => pending[r].deleted = 1
    /\ BothAnswered =>
          \E r \in Deletes :
              /\ pending[r].status = 200
              /\ \A q \in Deletes \ {r} : pending[q].status = 404

\* C29 under the router of routes/api.js, where lookup and removal are one
\* store operation.
C29_ExactlyOneDeleteSucceedsAtomic ==
    apiVariant = "open" => C29_ExactlyOneDeleteSucceeds

\* Under the router of part_003 both requests were answered 200 and one of
\* them removed nothing.
C29_Witness ==
    /\ apiVariant = "guarded"
    /\ BothAnswered
    /\ \A r \in Deletes : pending[r].status = 200
    /\ \E r \in Deletes : pending[r].deleted = 0

\* C30 -- A session that carries a userId carries the id, role and name of
\* one stored user; a session gets or changes its identity only in a login
\* whose email and secret are those of that user; and a failed login, a
\* registration and every task request leave the session as it was.
C30_SessionIdentityFromVerifiedLogin ==
    /\ [](\A sid \in Sessions :
            session[sid].userId # None
            => /\ session[sid].userId \in DOMAIN users
               /\ session[sid].userRole = users[session[sid].userId].role
               /\ session[sid].userName = users[session[sid].userId].nome)
    /\ [][\A sid \in Sessions :
            (session'[sid] # session[sid] /\ session'[sid].userId # None)
            => /\ resp'.op = "login" /\ resp'.sid = sid /\ resp'.status = 302
               /\ \A c \in AuthCredentials :
                     Login(sid, c[1], c[2])
                     => /\ users[session'[sid].userId].email = NormalizedEmail(c[1])
                        /\ users[session'[sid].userId].password = Hash(c[2])]_vars
    /\ [][(resp'.op # "logout" /\ ~(resp'.op = "login" /\ resp'.status = 302))
            => session' = session]_vars

\* A user who registered and logged in has created a task.
C30_Witness ==
    /\ Requester.userId \in Registered
    /\ Requester.userName = users[Requester.userId].nome
    /\ resp.op = "post"
    /\ resp.status = 201
    /\ tasks[resp.id].user = Requester.userId

====
